---- MODULE Spec2Model ----
(***************************************************************************)
(* The report engine of report.py: the three aggregation queries over the  *)
(* log, articles and authors tables, the formatting of their rows, and     *)
(* answer_questions, which prints the three sections to standard output.   *)
(*                                                                         *)
(* Text columns that the SQL inspects character by character (log.path,    *)
(* articles.slug) are sequences of one-character strings; text that is     *)
(* only printed (titles, names, messages) is a string.  The log is a bag:  *)
(* a function from the distinct rows (path, status, time) to the number of *)
(* copies of that row.  A timestamp is a number of time slots since the    *)
(* start of day 0, SlotsPerDay slots to the day.                           *)
(***************************************************************************)
EXTENDS Integers, Sequences, FiniteSets, TLC

VARIABLES log, articles, authors, limit, pc, out,
          article_rows, author_rows, error_rows

vars == <<log, articles, authors, limit, pc, out,
          article_rows, author_rows, error_rows>>

----------------------------------------------------------------------------
(* Bounds of the model *)

MaxLimit == 1
MaxViews == 2
SlotsPerDay == 2
MaxDays == 2

(* sys.maxsize, the default of --limit and of answer_questions' limit (the
   value on a 32-bit build; every value above the row counts acts alike) *)
MAX_INT == 2147483647

----------------------------------------------------------------------------
(* SQL functions and clauses, as PostgreSQL evaluates them *)

(* substring(string, start, count): the characters at positions
   start .. start+count-1 that exist, positions counted from 1 *)
substring(s, start, count) ==
  LET lo == IF start < 1 THEN 1 ELSE start
      hi == IF start + count - 1 > Len(s) THEN Len(s) ELSE start + count - 1
  IN  SubSeq(s, lo, hi)

concat(a, b) == a \o b

(* the literal '/article/' *)
ARTICLE_PREFIX == <<"/", "a", "r", "t", "i", "c", "l", "e", "/">>

(* the prefix test one character short *)
IsArticlePathShort(path) == substring(path, 0, 9) = SubSeq(ARTICLE_PREFIX, 1, 8)

(* WHERE substring(path, 0, 10) = '/article/' *)
IsArticlePath(path) == substring(path, 0, 10) = ARTICLE_PREFIX

(* date_trunc('day', time): midnight of the timestamp's day *)
date_trunc(time) == time - (time % SlotsPerDay)

(* count( * ) of the rows S of the bag lg *)
RECURSIVE CountRows(_, _)
CountRows(lg, S) ==
  IF S = {} THEN 0
  ELSE LET e == CHOOSE x \in S : TRUE
       IN  lg[e] + CountRows(lg, S \ {e})

(* sum(views) of a set of rows *)
RECURSIVE SumViews(_)
SumViews(S) ==
  IF S = {} THEN 0
  ELSE LET r == CHOOSE x \in S : TRUE
       IN  r.views + SumViews(S \ {r})

(* the orders a query without ORDER BY may return its rows in *)
RECURSIVE AnyOrder(_)
AnyOrder(S) ==
  IF S = {} THEN {<<>>}
  ELSE UNION { { <<r>> \o t : t \in AnyOrder(S \ {r}) } : r \in S }

(* ORDER BY views, ascending *)
OrderByViewsAsc(S) ==
  { s \in AnyOrder(S) :
      \A i \in 1..Len(s), j \in 1..Len(s) : i < j => s[i].views <= s[j].views }

(* ORDER BY views DESC: the orders with views never increasing, rows of
   equal views in any order *)
OrderByViewsDesc(S) ==
  { s \in AnyOrder(S) :
      \A i \in 1..Len(s), j \in 1..Len(s) : i < j => s[i].views >= s[j].views }

(* ORDER BY date, ascending *)
OrderByDateAsc(S) ==
  { s \in AnyOrder(S) :
      \A i \in 1..Len(s), j \in 1..Len(s) : i < j => s[i].date <= s[j].date }

(* ORDER BY date DESC *)
OrderByDateDesc(S) ==
  { s \in AnyOrder(S) :
      \A i \in 1..Len(s), j \in 1..Len(s) : i < j => s[i].date >= s[j].date }

(* no LIMIT clause *)
LimitIgnored(rows, n) == rows

(* LIMIT n *)
Limit(rows, n) == SubSeq(rows, 1, IF n < Len(rows) THEN n ELSE Len(rows))

----------------------------------------------------------------------------
(* The three queries.  Each is the set of results the store may return.    *)

(* SELECT path, count( * ) AS views FROM log
     WHERE substring(path, 0, 10) = '/article/' GROUP BY path *)
article_views(lg) ==
  LET kept == { e \in DOMAIN lg : IsArticlePath(e.path) }
  IN  { [path |-> p, views |-> CountRows(lg, { e \in kept : e.path = p })]
        : p \in { e.path : e \in kept } }

(* article_views INNER JOIN articles
     ON concat('/article/', articles.slug) = article_views.path *)
JoinArticles(views, arts) ==
  { [path |-> v.path, views |-> v.views, id |-> a.id, slug |-> a.slug,
     title |-> a.title, author |-> a.author]
    : <<v, a>> \in { p \in views \X arts :
                       concat(ARTICLE_PREFIX, p[2].slug) = p[1].path } }

POPULAR_ARTICLE_SQL(lg, arts) ==
  UNION { AnyOrder({ [id |-> j.id, views |-> j.views, title |-> j.title]
                     : j \in JoinArticles({ top[i] : i \in 1..Len(top) }, arts) })
          : top \in { Limit(s, 3) : s \in OrderByViewsDesc(article_views(lg)) } }

(* count( * ) in place of sum(views) *)
author_views_counted(lg, arts) ==
  LET joined == JoinArticles(article_views(lg), arts)
  IN  { [author |-> au, views |-> Cardinality({ j \in joined : j.author = au })]
        : au \in { j.author : j \in joined } }

(* SELECT author, sum(views) as views FROM (article_views)
     INNER JOIN articles ON ... GROUP BY author *)
author_views(lg, arts) ==
  LET joined == JoinArticles(article_views(lg), arts)
  IN  { [author |-> au, views |-> SumViews({ j \in joined : j.author = au })]
        : au \in { j.author : j \in joined } }

POPULAR_AUTHOR_SQL(lg, arts, auths, n) ==
  LET rows == { [id |-> p[2].id, name |-> p[2].name, views |-> p[1].views]
                : p \in { q \in author_views(lg, arts) \X auths :
                            q[1].author = q[2].id } }
  IN  { Limit(s, n) : s \in OrderByViewsDesc(rows) }

(* the subquery aliased error_counts: the days' '200 OK' counts *)
error_counts(lg) ==
  LET kept == { e \in DOMAIN lg : e.status = "200 OK" }
  IN  { [date |-> d,
         ok_count |-> CountRows(lg, { e \in kept : date_trunc(e.time) = d })]
        : d \in { date_trunc(e.time) : e \in kept } }

(* the subquery aliased ok_counts: the days' counts of every other status *)
ok_counts(lg) ==
  LET kept == { e \in DOMAIN lg : e.status # "200 OK" }
  IN  { [date |-> d,
         error_count |-> CountRows(lg, { e \in kept : date_trunc(e.time) = d })]
        : d \in { date_trunc(e.time) : e \in kept } }

(* error_counts LEFT OUTER JOIN ok_counts ON error_counts.date = ok_counts.date;
   a column is <<v>>, or <<>> when it is NULL *)
LeftOuterJoin(left, right) ==
  { [date |-> p[1].date, ok_count |-> <<p[1].ok_count>>,
     error_count |-> <<p[2].error_count>>]
    : p \in { q \in left \X right : q[1].date = q[2].date } }
  \cup
  { [date |-> l.date, ok_count |-> <<l.ok_count>>, error_count |-> <<>>]
    : l \in { x \in left : \A r \in right : r.date # x.date } }

(* the threshold not strict *)
ErrorRateFilterAtLeast(r) ==
  /\ r.error_count # <<>>
  /\ r.ok_count # <<>>
  /\ 100 * r.error_count[1] >= r.error_count[1] + r.ok_count[1]

(* WHERE 100 * error_count > error_count + ok_count; a comparison with NULL
   is not true *)
ErrorRateFilter(r) ==
  /\ r.error_count # <<>>
  /\ r.ok_count # <<>>
  /\ 100 * r.error_count[1] > r.error_count[1] + r.ok_count[1]

ERROR_DAYS_SQL(lg, n) ==
  LET rows == { [date |-> r.date, error_count |-> r.error_count[1],
                 ok_count |-> r.ok_count[1]]
                : r \in { x \in LeftOuterJoin(error_counts(lg), ok_counts(lg))
                            : ErrorRateFilter(x) } }
  IN  { Limit(s, n) : s \in OrderByDateDesc(rows) }

----------------------------------------------------------------------------
(* Formatting *)

(* '{title} ({views} views)'.format *)
format_article(row) == row.title \o " (" \o ToString(row.views) \o " views)"

(* '{name} ({views} views)'.format *)
format_author(row) == row.name \o " (" \o ToString(row.views) \o " views)"

(* row['date'].date(): the calendar day of a timestamp *)
date(time) == time \div SlotsPerDay

(* str of a date, ISO form; day d is the d-th of July 2016 *)
DateStr(d) == "2016-07-" \o (IF d < 10 THEN "0" ELSE "") \o ToString(d)

(* '{:0.2f}' of num / den: the quotient rounded to hundredths, an exact half
   to the even hundredth, written with two decimals *)
Fixed2(num, den) ==
  LET q == (100 * num) \div den
      r == (100 * num) % den
      h == IF 2 * r > den \/ (2 * r = den /\ q % 2 = 1) THEN q + 1 ELSE q
  IN  ToString(h \div 100) \o "." \o (IF h % 100 < 10 THEN "0" ELSE "")
        \o ToString(h % 100)

(* rate = 100. * error_count; rate /= error_count + ok_count *)
format_error_days(row) ==
  DateStr(date(row.date)) \o " ("
    \o Fixed2(100 * row.error_count, row.error_count + row.ok_count)
    \o "% error)"

----------------------------------------------------------------------------
(* The report engine *)

HEADER_ARTICLES == "The most popular three articles of all time:"
HEADER_AUTHORS == "The most popular article authors of all time:"
HEADER_ERROR_DAYS == "Days with more than 1% of requests leading to errors:"

NO_ARTICLES == "  No popular articles to report."
NO_AUTHORS == "No popular authors to report."
NO_ERROR_DAYS == "  No error days to report."

(* the failure message printed without the else *)
run_report_no_else(formatted, failure_message) ==
  [i \in 1..Len(formatted) |-> "  " \o formatted[i]] \o << "  " \o failure_message >>

(* _run_report, given the result's rows already formatted by on_success.
   result.rowcount is the number of rows of the SELECT (psycopg2 sets it
   for a SELECT); every line is printed after two spaces *)
run_report(formatted, failure_message) ==
  IF Len(formatted) # 0
  THEN [i \in 1..Len(formatted) |-> "  " \o formatted[i]]
  ELSE << "  " \o failure_message >>

(* print(): an empty line (Python 3, as the script's first line asks) *)
BLANK == ""

----------------------------------------------------------------------------
(* The store the connection reads *)

OK == "200 OK"
NOT_FOUND == "404 NOT FOUND"

(* the rows the tables may hold.  An article's path is '/article/' + slug,
   so no two articles share a slug, and ids are keys. *)
ArticleRows ==
  { [id |-> 1, slug |-> <<"f", "o", "o">>, title |-> "Foo", author |-> 1],
    [id |-> 2, slug |-> <<"b", "a", "r">>, title |-> "Bar", author |-> 1],
    [id |-> 3, slug |-> <<"b", "a", "z">>, title |-> "Baz", author |-> 2],
    [id |-> 4, slug |-> <<"q", "u", "x">>, title |-> "Qux", author |-> 2] }

AuthorRows == { [id |-> 1, name |-> "Ann"], [id |-> 2, name |-> "Bob"] }

(* request paths: the articles' paths and one that differs from the prefix
   '/article/' in its last character only *)
OtherPath == <<"/", "a", "r", "t", "i", "c", "l", "e", "s">>
Paths == { concat(ARTICLE_PREFIX, a.slug) : a \in ArticleRows } \cup {OtherPath}

Days == 1..MaxDays
Slots == 0..(SlotsPerDay - 1)
Limits == (0..MaxLimit) \cup {MAX_INT}

(* the bag with f[e] copies of each row e *)
MkBag(f) == [e \in { x \in DOMAIN f : f[x] > 0 } |-> f[e]]

(* logs of successful requests at one time: up to MaxViews per path *)
TrafficLogs ==
  LET rows == { [path |-> p, status |-> OK, time |-> SlotsPerDay + 1] : p \in Paths }
  IN  { MkBag(f) : f \in [rows -> 0..MaxViews] }

(* logs of one path over the days: each day's requests succeed late in the
   day and fail at some time of day *)
OkCounts == {0, 1, 98, 99}
ErrorCounts == {0, 1, 2}
StatusLogs ==
  UNION { { MkBag([e \in { [path |-> p, status |-> st,
                            time |-> d * SlotsPerDay
                                       + (IF st = OK THEN SlotsPerDay - 1 ELSE s)]
                           : d \in Days, st \in {OK, NOT_FOUND} }
                   |-> IF e.status = OK THEN ok[date(e.time)] ELSE er[date(e.time)]])
            : ok \in [Days -> OkCounts], er \in [Days -> ErrorCounts] }
          : p \in {OtherPath, concat(ARTICLE_PREFIX, <<"f", "o", "o">>)},
            s \in Slots }

(* the log of 5 successful requests of /article/foo and 2 of /article/bar *)
FooBarLog ==
  MkBag([e \in { [path |-> concat(ARTICLE_PREFIX, sl), status |-> OK,
                   time |-> SlotsPerDay + 1]
                 : sl \in {<<"f", "o", "o">>, <<"b", "a", "r">>} }
         |-> IF e.path = concat(ARTICLE_PREFIX, <<"f", "o", "o">>) THEN 5 ELSE 2])

(* the authors table: every author, or the second one missing *)
AuthorTables == {AuthorRows, {[id |-> 1, name |-> "Ann"]}}

Init ==
  /\ \/ /\ log \in TrafficLogs
        /\ articles \in SUBSET ArticleRows
        /\ authors \in AuthorTables
     \/ /\ log \in StatusLogs
        /\ articles = ArticleRows
        /\ authors = AuthorRows
     \/ /\ log = FooBarLog
        /\ articles = { a \in ArticleRows : a.author = 1 }
        /\ authors = { t \in AuthorRows : t.id = 1 }
  /\ limit \in Limits
  /\ pc = "articles"
  /\ out = <<>>
  /\ article_rows = <<>>
  /\ author_rows = <<>>
  /\ error_rows = <<>>

(* answer_questions, question 1 *)
AnswerArticles ==
  /\ pc = "articles"
  /\ \E result \in POPULAR_ARTICLE_SQL(log, articles) :
       /\ article_rows' = result
       /\ out' = out \o <<HEADER_ARTICLES>>
                   \o run_report([i \in 1..Len(result) |-> format_article(result[i])],
                                 NO_ARTICLES)
                   \o <<BLANK>>
  /\ pc' = "authors"
  /\ UNCHANGED <<log, articles, authors, limit, author_rows, error_rows>>

(* answer_questions, question 2 *)
AnswerAuthors ==
  /\ pc = "authors"
  /\ \E result \in POPULAR_AUTHOR_SQL(log, articles, authors, limit) :
       /\ author_rows' = result
       /\ out' = out \o <<HEADER_AUTHORS>>
                   \o run_report([i \in 1..Len(result) |-> format_author(result[i])],
                                 NO_AUTHORS)
                   \o <<BLANK>>
  /\ pc' = "error_days"
  /\ UNCHANGED <<log, articles, authors, limit, article_rows, error_rows>>

(* answer_questions, question 3 *)
AnswerErrorDays ==
  /\ pc = "error_days"
  /\ \E result \in ERROR_DAYS_SQL(log, limit) :
       /\ error_rows' = result
       /\ out' = out \o <<HEADER_ERROR_DAYS>>
                   \o run_report([i \in 1..Len(result) |-> format_error_days(result[i])],
                                 NO_ERROR_DAYS)
                   \o <<BLANK>>
  /\ pc' = "done"
  /\ UNCHANGED <<log, articles, authors, limit, article_rows, author_rows>>

Next == AnswerArticles \/ AnswerAuthors \/ AnswerErrorDays

Spec == Init /\ [][Next]_vars

----------------------------------------------------------------------------
(* What the claims speak of, stated from the tables and the output alone   *)

Done == pc = "done"

(* a path with the literal prefix '/article/' *)
HasArticlePrefix(path) ==
  /\ Len(path) >= Len(ARTICLE_PREFIX)
  /\ \A i \in 1..Len(ARTICLE_PREFIX) : path[i] = ARTICLE_PREFIX[i]

(* the number of log entries among the distinct rows S *)
RECURSIVE Entries(_)
Entries(S) ==
  IF S = {} THEN 0
  ELSE LET e == CHOOSE x \in S : TRUE
       IN  log[e] + Entries(S \ {e})

(* the views of a content item: the entries whose path is '/article/' + slug *)
ItemViews(a) ==
  Entries({ e \in DOMAIN log : e.path = ARTICLE_PREFIX \o a.slug })

(* the views of an author: the sum over the author's content items *)
RECURSIVE TotalViews(_)
TotalViews(items) ==
  IF items = {} THEN 0
  ELSE LET a == CHOOSE x \in items : TRUE
       IN  ItemViews(a) + TotalViews(items \ {a})

AuthorViews(id) == TotalViews({ a \in articles : a.author = id })

(* a calendar day's entries *)
DaysPresent == { e.time \div SlotsPerDay : e \in DOMAIN log }
OkCount(d) ==
  Entries({ e \in DOMAIN log : e.time \div SlotsPerDay = d /\ e.status = OK })
ErrorCount(d) ==
  Entries({ e \in DOMAIN log : e.time \div SlotsPerDay = d /\ e.status # OK })
AboveOnePercent(d) == 100 * ErrorCount(d) > ErrorCount(d) + OkCount(d)

(* the lines of the output *)
Headers == {HEADER_ARTICLES, HEADER_AUTHORS, HEADER_ERROR_DAYS}
FallbackLines == {"  " \o NO_ARTICLES, "  " \o NO_AUTHORS, "  " \o NO_ERROR_DAYS}

(* the positions of the data lines of the section under header h *)
DataLines(h) ==
  { i \in 1..Len(out) :
      /\ out[i] \notin Headers \cup FallbackLines \cup {BLANK}
      /\ \E a \in 1..(i - 1) :
           /\ out[a] = h
           /\ \A b \in (a + 1)..i : out[b] \notin Headers }

(* one section: the header, the rows' lines in order or else one fallback
   line, and a blank line *)
SectionOf(header, lines, fallback) ==
  <<header>> \o (IF Len(lines) > 0 THEN lines ELSE <<fallback>>) \o <<BLANK>>

ArticleLines == [i \in 1..Len(article_rows) |->
                   "  " \o article_rows[i].title \o " ("
                     \o ToString(article_rows[i].views) \o " views)"]
AuthorLines == [i \in 1..Len(author_rows) |->
                  "  " \o author_rows[i].name \o " ("
                    \o ToString(author_rows[i].views) \o " views)"]
ErrorDayLines == [i \in 1..Len(error_rows) |->
                    "  " \o format_error_days(error_rows[i])]

----------------------------------------------------------------------------
(* C1: a run writes the three sections in the order Items, Authors,
   Error-Days; each is its header, then one line per row the query returned,
   in the query's order, or exactly one fallback line when it returned no
   row, then a blank line, the last section included. *)
C1_ThreeSections ==
  LET s1 == SectionOf(HEADER_ARTICLES, ArticleLines, "  " \o NO_ARTICLES)
      s2 == SectionOf(HEADER_AUTHORS, AuthorLines, "  " \o NO_AUTHORS)
      s3 == SectionOf(HEADER_ERROR_DAYS, ErrorDayLines, "  " \o NO_ERROR_DAYS)
  IN  /\ pc = "articles" => out = <<>>
      /\ pc = "authors" => out = s1
      /\ pc = "error_days" => out = s1 \o s2
      /\ pc = "done" => out = s1 \o s2 \o s3

C1_Witness ==
  /\ Done
  /\ Len(article_rows) >= 2
  /\ Len(author_rows) = 1
  /\ error_rows = <<>>

(* C2: with no '/article/' entry in the log, the Items section is its
   header, the line 'No popular articles to report.' and a blank line, and
   the Authors section its header, 'No popular authors to report.' and a
   blank line, the two messages verbatim. *)
C2_FallbackVerbatim ==
  (Done /\ \A e \in DOMAIN log : ~HasArticlePrefix(e.path)) =>
    /\ Len(out) >= 6
    /\ SubSeq(out, 1, 3)
         = <<HEADER_ARTICLES, "No popular articles to report.", BLANK>>
    /\ SubSeq(out, 4, 6)
         = <<HEADER_AUTHORS, "No popular authors to report.", BLANK>>

(* C3: the Authors and the Error-Days sections hold at most limit data
   lines each, none when limit = 0 (the section then is its fallback line),
   and the Items section at most 3, whatever the limit. *)
C3_AtMostLimit ==
  /\ Cardinality(DataLines(HEADER_ARTICLES)) <= 3
  /\ Cardinality(DataLines(HEADER_AUTHORS)) <= limit
  /\ Cardinality(DataLines(HEADER_ERROR_DAYS)) <= limit
  /\ (Done /\ limit = 0) =>
       \E i \in 1..Len(out), j \in 1..Len(out) :
         /\ i < j
         /\ out[i] = "  " \o NO_AUTHORS
         /\ out[j] = "  " \o NO_ERROR_DAYS

C3_Witness ==
  /\ Done
  /\ limit = 1
  /\ Cardinality(DataLines(HEADER_ARTICLES)) = 3
  /\ Cardinality({ a \in articles : ItemViews(a) > 0 }) = 4
  /\ Cardinality(DataLines(HEADER_AUTHORS)) = 1
  /\ Cardinality({ t \in authors : AuthorViews(t.id) > 0 }) = 2

(* C4: without truncation, a calendar day of the log is a row of the
   Error-Days result exactly when 100 * error_count > error_count + ok_count,
   a count with no entry being zero. *)
C4_ErrorDayRows ==
  (Done /\ limit >= Cardinality(DaysPresent)) =>
    \A d \in DaysPresent :
      (\E i \in 1..Len(error_rows) : date(error_rows[i].date) = d)
        <=> AboveOnePercent(d)

TwoDecimals(h) ==
  ToString(h \div 100) \o "." \o ToString((h % 100) \div 10) \o ToString(h % 10)

ErrorDayLine(d, h) == "  " \o DateStr(d) \o " (" \o TwoDecimals(h) \o "% error)"

(* the hundredths that may render the day's rate: the two around it *)
Hundredths(d) ==
  LET q == (10000 * ErrorCount(d)) \div (ErrorCount(d) + OkCount(d))
  IN  {q, q + 1}

Nearest(d, h) ==
  LET diff == h * (ErrorCount(d) + OkCount(d)) - 10000 * ErrorCount(d)
  IN  2 * (IF diff < 0 THEN -diff ELSE diff) <= ErrorCount(d) + OkCount(d)

OutLines == { out[i] : i \in 1..Len(out) }

(* C5: the threshold is strict.  Without truncation, a day with a '200 OK'
   entry whose errors are 1% of its entries or less has no line, and one
   whose errors exceed 1% has the line of its date and of the rate
   100 * error_count / (error_count + ok_count) to the nearest hundredth,
   two decimals shown: '2.00' for 2 of 100. *)
C5_StrictThreshold ==
  (Done /\ limit >= Cardinality(DaysPresent)) =>
    \A d \in { x \in DaysPresent : OkCount(x) >= 1 } :
      /\ ~AboveOnePercent(d) =>
           /\ \A i \in 1..Len(error_rows) : date(error_rows[i].date) # d
           /\ \A h \in Hundredths(d) : ErrorDayLine(d, h) \notin OutLines
      /\ AboveOnePercent(d) =>
           \E h \in Hundredths(d) : Nearest(d, h) /\ ErrorDayLine(d, h) \in OutLines
      /\ (ErrorCount(d) = 2 /\ OkCount(d) = 98) =>
           ("  " \o DateStr(d) \o " (2.00% error)") \in OutLines

C5_Witness ==
  /\ Done
  /\ limit >= Cardinality(DaysPresent)
  /\ \E d1 \in DaysPresent, d2 \in DaysPresent :
       /\ ErrorCount(d1) = 1 /\ OkCount(d1) = 99
       /\ ErrorCount(d2) = 2 /\ OkCount(d2) = 98

(* the logs that differ from the log in entries without the prefix
   '/article/' only: all of them removed, the copies of one removed, or one
   added *)
OtherEntries == { e \in DOMAIN log : ~HasArticlePrefix(e.path) }

Variants ==
  { [e \in DOMAIN log \ N |-> log[e]]
    : N \in {OtherEntries} \cup { {x} : x \in OtherEntries } }
  \cup
  { [e \in DOMAIN log \cup {x} |-> IF e = x THEN 1 ELSE log[e]]
    : x \in { [path |-> OtherPath, status |-> st, time |-> SlotsPerDay]
              : st \in {OK, NOT_FOUND} } \ DOMAIN log }

ViewCountsAlike(lg) ==
  /\ article_views(lg) = article_views(log)
  /\ author_views(lg, articles) = author_views(log, articles)

(* the rows' views count the entries of the items' own paths only *)
RowsAlike ==
  /\ \A i \in 1..Len(article_rows) :
       \E a \in articles :
         a.id = article_rows[i].id /\ article_rows[i].views = ItemViews(a)
  /\ \A i \in 1..Len(author_rows) :
       author_rows[i].views = AuthorViews(author_rows[i].id)

DayCountsAlike(lg) ==
  /\ error_counts(lg) = error_counts(log)
  /\ ok_counts(lg) = ok_counts(log)

(* C6 as claimed: entries without the prefix '/article/' contribute to no
   count of any report: with such entries added or removed every view count,
   every author total and every day's ok_count and error_count is the same. *)
C6_NoCountChanges ==
  Done => \A lg \in Variants : ViewCountsAlike(lg) /\ DayCountsAlike(lg)

(* C6 as amended: entries without the prefix '/article/' contribute to no
   view count and to no author total: with such entries added or removed
   both are the same, and the views of the Items and Authors rows count the
   entries of the items' own paths only. *)
C6_ViewCountsUnchanged ==
  Done => /\ \A lg \in Variants : ViewCountsAlike(lg)
          /\ RowsAlike

C6_Witness ==
  /\ Done
  /\ OtherEntries # {}
  /\ author_rows # <<>>
  /\ \E lg \in Variants : ~DayCountsAlike(lg)

(* C7: the Items rows are emitted with views never increasing. *)
C7_ItemsSortedByViews ==
  \A i \in 1..(Len(article_rows) - 1) :
    article_rows[i].views >= article_rows[i + 1].views

RateAbove(r1, r2) ==
  r1.error_count * (r2.error_count + r2.ok_count)
    > r2.error_count * (r1.error_count + r1.ok_count)
RateEqual(r1, r2) ==
  r1.error_count * (r2.error_count + r2.ok_count)
    = r2.error_count * (r1.error_count + r1.ok_count)

(* C8 as claimed: the Error-Days rows are emitted by error rate descending,
   and by date descending among equal rates. *)
C8_SortedByRateThenDate ==
  \A i \in 1..(Len(error_rows) - 1) :
    \/ RateAbove(error_rows[i], error_rows[i + 1])
    \/ /\ RateEqual(error_rows[i], error_rows[i + 1])
       /\ error_rows[i].date >= error_rows[i + 1].date

(* C8 as amended: the Error-Days rows are emitted by date descending,
   whatever their rates. *)
C8_SortedByDate ==
  \A i \in 1..(Len(error_rows) - 1) :
    /\ date(error_rows[i].date) > date(error_rows[i + 1].date)
    /\ out[Len(out) - Len(error_rows) - 1 + i]
         = "  " \o format_error_days(error_rows[i])

C8_Witness ==
  /\ Done
  /\ Len(error_rows) = 2
  /\ RateAbove(error_rows[2], error_rows[1])

FooBarViews ==
  /\ \E a \in articles : a.title = "Foo" /\ a.author = 1 /\ ItemViews(a) = 5
  /\ \E a \in articles : a.title = "Bar" /\ a.author = 1 /\ ItemViews(a) = 2
  /\ \A a \in articles : ItemViews(a) > 0 => a.title \in {"Foo", "Bar"}
  /\ \E t \in authors : t.id = 1 /\ t.name = "Ann"

(* C9: each Authors row names an author of the authors table with a viewed
   content item, its views the sum over the author's items of the entries
   whose path is '/article/' + slug, its line '<name> (<views> views)';
   authors without a viewed item have no row, and without truncation every
   author with one has a row.  Items foo with 5 views and bar with 2, both
   Ann's and the only ones viewed, give the single line 'Ann (7 views)'. *)
C9_AuthorTotals ==
  pc \in {"error_days", "done"} =>
    /\ \A i \in 1..Len(author_rows) :
         /\ \E t \in authors :
              /\ t.id = author_rows[i].id
              /\ t.name = author_rows[i].name
         /\ \E a \in articles :
              a.author = author_rows[i].id /\ ItemViews(a) > 0
         /\ author_rows[i].views = AuthorViews(author_rows[i].id)
         /\ out[3 + (IF Len(article_rows) > 0 THEN Len(article_rows) ELSE 1) + i]
              = "  " \o author_rows[i].name \o " ("
                  \o ToString(AuthorViews(author_rows[i].id)) \o " views)"
    /\ Len(author_rows) < limit =>
         \A t \in authors :
           AuthorViews(t.id) > 0 =>
             \E i \in 1..Len(author_rows) : author_rows[i].id = t.id
    /\ (FooBarViews /\ limit >= 1) =>
         /\ Len(author_rows) = 1
         /\ Cardinality(DataLines(HEADER_AUTHORS)) = 1
         /\ \E i \in DataLines(HEADER_AUTHORS) : out[i] = "  Ann (7 views)"

C9_Witness ==
  /\ Done
  /\ FooBarViews
  /\ limit >= 1
  /\ \E t \in authors : AuthorViews(t.id) = 7

(* C10: the Authors rows are emitted with views never increasing, and
   truncation keeps the first limit of them: no author left out has more
   views than one emitted. *)
C10_AuthorsSortedByViews ==
  pc \in {"error_days", "done"} =>
    LET with_views == { t \in authors : AuthorViews(t.id) > 0 }
        emitted == { author_rows[i].id : i \in 1..Len(author_rows) }
    IN  /\ \A i \in 1..(Len(author_rows) - 1) :
             author_rows[i].views >= author_rows[i + 1].views
        /\ Len(author_rows)
             = (IF limit < Cardinality(with_views)
                THEN limit ELSE Cardinality(with_views))
        /\ \A t \in with_views :
             t.id \notin emitted =>
               \A i \in 1..Len(author_rows) :
                 AuthorViews(t.id) <= author_rows[i].views

C10_Witness ==
  /\ Done
  /\ limit = 1
  /\ Len(author_rows) = 1
  /\ \E t \in authors :
       /\ AuthorViews(t.id) > 0
       /\ AuthorViews(t.id) < author_rows[1].views

====
